---------------------------- MODULE Spec2Model ----------------------------
(***************************************************************************)
(* Breakout analyzer (src/app.py): analyze_breakout_strategy and the       *)
(* summary block of main, as a state machine.                               *)
(*                                                                          *)
(* The data frame df is a function from the positions 0..len(df)-1 to bars  *)
(* [date, Close, Volume]; positions are 0-based as in pandas' iloc.  Dates  *)
(* are day numbers (the index labels).  Real-valued columns are kept exact: *)
(* a mean is its window sum over Window, a ratio is compared by cross       *)
(* multiplication, and a value rounded to 2 decimals is an integer count of *)
(* hundredths.  The input values are chosen so that every comparison the    *)
(* code makes in binary floating point has the same outcome as the exact    *)
(* one (sums of volumes divisible by Window, thresholds 200/900/2/25 whose  *)
(* factors 3.0, 10.0 and 0.25 are exact, and a 0.02 threshold that no       *)
(* return of the inputs comes near).                                        *)
(***************************************************************************)
EXTENDS Integers, Sequences, FiniteSets, TLC

VARIABLES
    pc,                     \* position: "start", "loop", "returned", "shown"
    df,                     \* stock.history(...): position -> bar
    volume_threshold,       \* percent above the 20-day average
    price_change_threshold, \* percent
    holding_period,         \* index steps
    breakout_dates,         \* df[breakout_conditions].index, a sequence of labels
    k,                      \* the for loop's cursor into breakout_dates
    breakout_returns,       \* the list of event rows built so far
    warnings,               \* st.warning calls, in order (the date each names)
    notice,                 \* "none", "error" (st.error) or "info" (st.info)
    results,                \* what analyze_breakout_strategy returned
    summary,                \* the metrics main shows
    calls,                  \* button presses served so far
    prev                    \* what the previous call returned, and its warnings

vars == <<pc, df, volume_threshold, price_change_threshold, holding_period,
          breakout_dates, k, breakout_returns, warnings, notice, results,
          summary, calls, prev>>

---------------------------------------------------------------------------
(* Bounds of the model *)

MaxLen == 26

MaxCalls == 2

(* Program constants *)

Window == 20

---------------------------------------------------------------------------
(* Inputs *)

\* The day number of the bar at position i of a well-formed series: trading
\* days, weekends skipped, so labels and positions differ.
DateOf(i) == i + 2 * (i \div 5) + 1

BaseBar(i) == [date |-> DateOf(i), Close |-> 100, Volume |-> 1000]

\* What a bar may carry instead of the baseline values.
Kinds == { [Close |-> 100, Volume |-> 1000],
           [Close |-> 103, Volume |-> 3500],
           [Close |-> 125, Volume |-> 19000] }

VolumeThresholds == {200, 900}

PriceThresholds == {2, 25}

HoldingPeriods == {1, 3, 5}

\* A baseline series of n bars with the bars at positions p and q replaced.
MarkedSeries(n, p, kp, q, kq) ==
    [i \in 0..(n - 1) |->
        IF i = q THEN [date |-> DateOf(i), Close |-> kq.Close, Volume |-> kq.Volume]
        ELSE IF i = p THEN [date |-> DateOf(i), Close |-> kp.Close, Volume |-> kp.Volume]
        ELSE BaseBar(i)]

\* The same series with the label of position a written over that of a + 1
\* (a duplicated date), or the two labels exchanged (dates out of order).
DuplicateDate(d, a) ==
    [i \in DOMAIN d |-> IF i = a + 1 THEN [d[i] EXCEPT !.date = d[a].date] ELSE d[i]]

SwapDates(d, a) ==
    IF a + 1 \in DOMAIN d
    THEN [i \in DOMAIN d |->
            IF i = a THEN [d[i] EXCEPT !.date = d[a + 1].date]
            ELSE IF i = a + 1 THEN [d[i] EXCEPT !.date = d[a].date]
            ELSE d[i]]
    ELSE d

---------------------------------------------------------------------------
(* The data frame and its derived columns *)

len(d) == Cardinality(DOMAIN d)

None == [none |-> TRUE, rows |-> <<>>]

Table(rows) == [none |-> FALSE, rows |-> rows]

NoSummary == [shown |-> FALSE]

\* The sum of the Volume column over the positions lo..hi that exist.
RECURSIVE SumVolume(_, _, _)
SumVolume(d, lo, hi) ==
    IF lo > hi \/ hi < 0 THEN 0 ELSE d[hi].Volume + SumVolume(d, lo, hi - 1)

\* Mutant: min_periods is dropped, missing observations count as zero.
RollingDefinedAlways(i) == i >= 0

\* rolling(window=20): the value at i is defined once 20 observations exist.
RollingDefined(i) == i >= Window - 1

\* Mutant: the window ends the day before i.
RollingSumPrior(d, i) == SumVolume(d, i - Window, i - 1)

\* The sum behind volume_ma_20[i]: the mean is RollingSum / Window.
RollingSum(d, i) == SumVolume(d, i - (Window - 1), i)

\* pct_change(): undefined at position 0.
ReturnDefined(i) == i >= 1

\* round-half-even of num/den (den > 0) to an integer.
RoundDiv(num, den) ==
    LET f == num \div den
        r == num - f * den
    IN  IF 2 * r < den THEN f
        ELSE IF 2 * r > den THEN f + 1
        ELSE IF f % 2 = 0 THEN f ELSE f + 1

\* round(100 * num / den, 2) in hundredths, without leaving 32 bits.
Pct2(num, den) ==
    LET q == num \div den
        r == num - q * den
    IN  q * 10000 + RoundDiv(r * 10000, den)

\* int(x) for x = num/den: truncation toward zero.
IntDiv(num, den) == IF num >= 0 THEN num \div den ELSE -((-num) \div den)

\* Mutant: the comparison admits equality.
VolumeConditionInclusive(d, i, vt) ==
    /\ RollingDefined(i)
    /\ d[i].Volume * Window * 100 >= RollingSum(d, i) * (100 + vt)

\* df["Volume"] > df["volume_ma_20"] * (1 + volume_threshold / 100)
VolumeCondition(d, i, vt) ==
    /\ RollingDefined(i)
    /\ d[i].Volume * Window * 100 > RollingSum(d, i) * (100 + vt)

\* df["daily_return"] > price_change_threshold / 100
PriceCondition(d, i, pt) ==
    /\ ReturnDefined(i)
    /\ (d[i].Close - d[i - 1].Close) * 100 > pt * d[i - 1].Close

BreakoutCondition(d, i, vt, pt) ==
    VolumeCondition(d, i, vt) /\ PriceCondition(d, i, pt)

\* Mutant: a breakout inside the holding window of the breakout before it
\* is merged into that one.
BreakoutRowsMerged(d, vt, pt) ==
    { i \in DOMAIN d :
        /\ BreakoutCondition(d, i, vt, pt)
        /\ \A j \in DOMAIN d :
              (j < i /\ i - j <= holding_period) => ~BreakoutCondition(d, j, vt, pt) }

\* The positions the boolean mask selects.
BreakoutRows(d, vt, pt) == { i \in DOMAIN d : BreakoutCondition(d, i, vt, pt) }

\* The elements of a set of positions in ascending order.
Ascending(S) ==
    [j \in 1..Cardinality(S) |->
        CHOOSE i \in S : Cardinality({x \in S : x < i}) = j - 1]

\* df[breakout_conditions].index: the labels of the selected rows, in row order.
BreakoutDates(d, vt, pt) ==
    LET rows == Ascending(BreakoutRows(d, vt, pt))
    IN  [j \in DOMAIN rows |-> d[rows[j]].date]

\* df.index.get_loc(label): the positions carrying the label.  One position
\* is returned as an integer; several come back as a slice or a mask.
GetLoc(d, label) == { i \in DOMAIN d : d[i].date = label }

\* Mutant: the exit is taken one bar early.
ExitIndexShort(start_idx, hp) == start_idx + hp - 1

\* end_idx = start_idx + holding_period
ExitIndex(start_idx, hp) == start_idx + hp

\* Mutant: the list of the previous call is kept.
KeptList == breakout_returns

\* breakout_returns = []: the list every call starts from.
NewList == <<>>

\* Mutant: an empty table is returned as it is.
NeverEmptyTable(rows) == FALSE

\* len(results_df) == 0
IsEmptyTable(rows) == Len(rows) = 0

\* Mutant: the except clause sits outside the for loop and ends it.
AbortAt(cursor, dates) == Len(dates) + 1

\* The except clause sits inside the for loop: after the warning the loop
\* goes on with the next date.
ResumeAt(cursor, dates) == cursor + 1

\* The row appended for the breakout at start_idx.
EventRow(d, start_idx, end_idx) ==
    LET entry_price == d[start_idx].Close
        exit_price  == d[end_idx].Close
        s           == RollingSum(d, start_idx)
        v           == d[start_idx].Volume
        before      == d[start_idx - 1].Close
    IN  [ date     |-> d[start_idx].date,
          Volume   |-> v,
          AvgVolume |-> IntDiv(s, Window),
          VolumePctAboveAvg |-> Pct2(v * Window - s, s),
          PriceChangePct |-> Pct2(entry_price - before, before),
          EntryPrice |-> entry_price,
          ExitPrice  |-> exit_price,
          ReturnPct  |-> Pct2(exit_price - entry_price, entry_price) ]

---------------------------------------------------------------------------
(* Summary statistics of main *)

RECURSIVE SumReturns(_)
SumReturns(rows) ==
    IF rows = <<>> THEN 0 ELSE Head(rows).ReturnPct + SumReturns(Tail(rows))

ReturnsOf(rows) == { rows[j].ReturnPct : j \in DOMAIN rows }

\* Mutant: a flat trade counts as a win.
IsWinOrFlat(row) == row.ReturnPct >= 0

\* results[...] > 0
IsWin(row) == row.ReturnPct > 0

Wins(rows) == Cardinality({ j \in DOMAIN rows : IsWin(rows[j]) })

MaxOf(S) == CHOOSE x \in S : \A y \in S : y <= x

MinOf(S) == CHOOSE x \in S : \A y \in S : x <= y

\* A mean is kept as the pair sum/count; win_rate is the mean of the win
\* flags times 100.
Summarize(rows) ==
    [ shown      |-> TRUE,
      count      |-> Len(rows),
      avg_return |-> [num |-> SumReturns(rows), den |-> Len(rows)],
      win_rate   |-> [num |-> Wins(rows) * 100, den |-> Len(rows)],
      best       |-> MaxOf(ReturnsOf(rows)),
      worst      |-> MinOf(ReturnsOf(rows)) ]

---------------------------------------------------------------------------
(* Initial states *)

Positions == 0..(MaxLen - 1)

\* Everything but the series handed over.
InitWith(VTs, PTs, HPs) ==
    /\ pc = "start"
    /\ volume_threshold \in VTs
    /\ price_change_threshold \in PTs
    /\ holding_period \in HPs
    /\ breakout_dates = <<>>
    /\ k = 1
    /\ breakout_returns = <<>>
    /\ warnings = <<>>
    /\ notice = "none"
    /\ results = None
    /\ summary = NoSummary
    /\ calls = 1
    /\ prev = [results |-> None, warnings |-> <<>>, notice |-> "none"]

\* A well-formed series.
Init ==
    /\ \E n \in 0..MaxLen, p \in Positions, kp \in Kinds, kq \in Kinds :
          \E q \in p..(MaxLen - 1) : df = MarkedSeries(n, p, kp, q, kq)
    /\ InitWith(VolumeThresholds, PriceThresholds, HoldingPeriods)

\* Series as a collaborator that breaks its contract may hand them over: the
\* date after the first replaced bar repeats it, or the two are exchanged.
InitRaw ==
    /\ \E n \in 0..MaxLen, p \in Positions, q \in Positions, kp \in Kinds, kq \in Kinds :
          \/ df = DuplicateDate(MarkedSeries(n, p, kp, q, kq), p)
          \/ df = SwapDates(MarkedSeries(n, p, kp, q, kq), p)
    /\ InitWith({200}, {2}, {1, 3})

InitRerun ==
    /\ \E n \in 0..MaxLen, p \in Positions, kp \in Kinds, kq \in Kinds :
          \E q \in p..(MaxLen - 1) : df = MarkedSeries(n, p, kp, q, kq)
    /\ InitWith({200}, {2}, HoldingPeriods)

---------------------------------------------------------------------------
(* Actions *)

\* analyze_breakout_strategy up to the for loop.
Analyze ==
    /\ pc = "start"
    /\ IF len(df) = 0
       THEN /\ notice' = "error"
            /\ results' = None
            /\ pc' = "returned"
            /\ UNCHANGED <<breakout_dates, breakout_returns, k>>
       ELSE /\ breakout_dates' =
                  BreakoutDates(df, volume_threshold, price_change_threshold)
            /\ breakout_returns' = NewList
            /\ k' = 1
            /\ pc' = "loop"
            /\ UNCHANGED <<notice, results>>
    /\ UNCHANGED <<df, volume_threshold, price_change_threshold, holding_period,
                   warnings, summary, calls, prev>>

\* One iteration of the for loop: the try body and its except clause.
Iterate ==
    /\ pc = "loop"
    /\ k <= Len(breakout_dates)
    /\ LET breakout_date == breakout_dates[k]
           loc == GetLoc(df, breakout_date)
       IN  IF Cardinality(loc) # 1
           THEN \* start_idx is no integer: the arithmetic on it raises
                /\ warnings' = Append(warnings, breakout_date)
                /\ k' = ResumeAt(k, breakout_dates)
                /\ UNCHANGED breakout_returns
           ELSE LET start_idx == CHOOSE i \in loc : TRUE
                    end_idx == ExitIndex(start_idx, holding_period)
                IN  /\ k' = k + 1
                    /\ IF end_idx >= len(df)
                       THEN UNCHANGED <<breakout_returns, warnings>>
                       ELSE /\ breakout_returns' =
                                  Append(breakout_returns, EventRow(df, start_idx, end_idx))
                            /\ UNCHANGED warnings
    /\ UNCHANGED <<pc, df, volume_threshold, price_change_threshold, holding_period,
                   breakout_dates, notice, results, summary, calls, prev>>

\* After the loop: the table, or None with an info notice.
Return ==
    /\ pc = "loop"
    /\ k > Len(breakout_dates)
    /\ IF IsEmptyTable(breakout_returns)
       THEN notice' = "info" /\ results' = None
       ELSE notice' = notice /\ results' = Table(breakout_returns)
    /\ pc' = "returned"
    /\ UNCHANGED <<df, volume_threshold, price_change_threshold, holding_period,
                   breakout_dates, k, breakout_returns, warnings, summary, calls, prev>>

\* main: the summary statistics, shown when results is not None.
Show ==
    /\ pc = "returned"
    /\ summary' = IF results.none THEN NoSummary ELSE Summarize(results.rows)
    /\ pc' = "shown"
    /\ UNCHANGED <<df, volume_threshold, price_change_threshold, holding_period,
                   breakout_dates, k, breakout_returns, warnings, notice, results,
                   calls, prev>>

\* The button is pressed again with the same inputs: the script runs anew
\* on a cleared page.  The locals of the previous call are dead; they keep
\* their old values here until the new call assigns them.
Rerun ==
    /\ pc = "shown"
    /\ calls < MaxCalls
    /\ calls' = calls + 1
    /\ prev' = [results |-> results, warnings |-> warnings, notice |-> notice]
    /\ pc' = "start"
    /\ warnings' = <<>>
    /\ notice' = "none"
    /\ results' = None
    /\ summary' = NoSummary
    /\ UNCHANGED <<df, volume_threshold, price_change_threshold, holding_period,
                   breakout_dates, k, breakout_returns>>

Next == Analyze \/ Iterate \/ Return \/ Show

NextRerun == Analyze \/ Iterate \/ Return \/ Show \/ Rerun

\* One press of the button on a well-formed series.
Spec == Init /\ [][Next]_vars

\* One press of the button on a series that may break the contract.
SpecRaw == InitRaw /\ [][Next]_vars

\* The button pressed again and again with the same inputs.
SpecRerun == InitRerun /\ [][NextRerun]_vars

---------------------------------------------------------------------------
(* Vocabulary of the properties, spelled out from the data alone *)

Last == len(df) - 1

Done == pc \in {"returned", "shown"}

\* The contract on a series: dates strictly ascending, prices positive,
\* volumes not negative.
ValidSeries(d) ==
    \A i \in DOMAIN d :
        /\ d[i].Close > 0
        /\ d[i].Volume >= 0
        /\ (i + 1 \in DOMAIN d => d[i].date < d[i + 1].date)

\* The position of a label of a series whose labels are unique.
PositionOf(label) == CHOOSE i \in DOMAIN df : df[i].date = label

\* The sum of the volumes of the 20 days ending at day i (i >= 19).
TrailingSum(i) == SumVolume(df, i - 19, i)

\* Volume above the trailing mean by more than the threshold.
VolumeSurge(i) ==
    i >= 19 /\ df[i].Volume * 2000 > TrailingSum(i) * (100 + volume_threshold)

\* Close above the previous close by more than the threshold.
PriceSurge(i) ==
    i >= 1 /\ (df[i].Close - df[i - 1].Close) * 100 > price_change_threshold * df[i - 1].Close

BreakoutDay(i) == VolumeSurge(i) /\ PriceSurge(i)

EventDates == { breakout_returns[j].date : j \in DOMAIN breakout_returns }

FlaggedDates == { breakout_dates[j] : j \in DOMAIN breakout_dates }

\* The event of row j is the one of day i.
EventOfDay(j, i) ==
    /\ breakout_returns[j].date = df[i].date
    /\ breakout_returns[j].EntryPrice = df[i].Close
    /\ breakout_returns[j].ExitPrice = df[i + holding_period].Close

---------------------------------------------------------------------------
(* C1 *)

\* C1: every event has entry price close[i] and exit price
\* close[i + holding_period] with i + holding_period inside the series; a
\* breakout day whose exit falls outside is dropped without a warning; a
\* series shorter than holding_period + 20 bars yields no event.
C1_ExitInsideSeries ==
    /\ \A j \in DOMAIN breakout_returns :
          LET i == PositionOf(breakout_returns[j].date)
          IN  i + holding_period <= Last /\ EventOfDay(j, i)
    /\ warnings = <<>>
    /\ len(df) < holding_period + 20 => breakout_returns = <<>>
    /\ Done => \A i \in DOMAIN df :
                  (BreakoutDay(i) /\ i + holding_period > Last) => df[i].date \notin EventDates

\* A finished call that reported one breakout day and dropped another.
C1_Witness ==
    /\ pc = "returned"
    /\ Len(breakout_returns) >= 1
    /\ \E i \in DOMAIN df :
          BreakoutDay(i) /\ i + holding_period > Last /\ df[i].date \notin EventDates

---------------------------------------------------------------------------
(* C2 *)

ReportableDays == { i \in DOMAIN df : BreakoutDay(i) /\ i + holding_period <= Last }

\* C2: the table holds exactly one event per day that satisfies both
\* conditions and has its exit inside the series, in ascending date order,
\* overlapping holding windows or not.
C2_OneEventPerDay ==
    pc = "returned" =>
        LET days == Ascending(ReportableDays)
        IN  /\ Len(breakout_returns) = Len(days)
            /\ \A j \in DOMAIN days : EventOfDay(j, days[j])
            /\ \A j \in DOMAIN breakout_returns :
                  j > 1 => breakout_returns[j - 1].date < breakout_returns[j].date

\* Two events 2 or 3 trading days apart whose holding windows overlap.
C2_Witness ==
    /\ pc = "returned"
    /\ Len(breakout_returns) = 2
    /\ LET a == PositionOf(breakout_returns[1].date)
           b == PositionOf(breakout_returns[2].date)
       IN  /\ b - a \in {2, 3}
           /\ holding_period > b - a
           /\ breakout_returns[1].EntryPrice # breakout_returns[2].EntryPrice

---------------------------------------------------------------------------
(* C3 *)

\* C3: no flagged day and no event lies at a position below 19 (no moving
\* average there) or at position 0 (no daily return there).
C3_UndefinedNeverFlagged ==
    /\ \A j \in DOMAIN breakout_dates :
          PositionOf(breakout_dates[j]) >= 19 /\ PositionOf(breakout_dates[j]) >= 1
    /\ \A j \in DOMAIN breakout_returns :
          PositionOf(breakout_returns[j].date) >= 19

\* A finished call on a series with the largest volume and price at
\* position 0 and a surge of both at a later position below 19, whose exit
\* lies inside the series.
C3_Witness ==
    /\ pc = "returned"
    /\ volume_threshold = 200
    /\ Last >= 19
    /\ df[0].Volume = 19000 /\ df[0].Close = 125
    /\ \E i \in 1..18 :
          /\ df[i].Volume = 19000
          /\ PriceSurge(i)
          /\ i + holding_period <= Last

---------------------------------------------------------------------------
(* C4 *)

VolumeAtThreshold(i) ==
    i >= 19 /\ df[i].Volume * 2000 = TrailingSum(i) * (100 + volume_threshold)

PriceAtThreshold(i) ==
    i >= 1 /\ (df[i].Close - df[i - 1].Close) * 100 = price_change_threshold * df[i - 1].Close

---------------------------------------------------------------------------
(* C5 *)

---------------------------------------------------------------------------
(* C6 *)

\* C6: a series that breaks the contract never ends in a normal result, a
\* table or the no-breakouts notice.
C6_InvalidSeriesRejected ==
    (Done /\ ~ValidSeries(df)) => (results.none /\ notice # "info")

---------------------------------------------------------------------------
(* C7 *)

\* 20 bars of volume 1000 and close 100, then a bar of volume 3500 and
\* close 103, then bars that are no breakout days.
ScenarioB ==
    /\ len(df) >= 21
    /\ \A i \in 0..19 : df[i].Volume = 1000 /\ df[i].Close = 100
    /\ df[20].Volume = 3500 /\ df[20].Close = 103
    /\ \A i \in DOMAIN df : i > 20 => ~BreakoutDay(i)
    /\ volume_threshold = 200 /\ price_change_threshold = 2 /\ holding_period = 5

\* C7: the moving average at day i covers volume[i-19..i], day i included
\* (1125 at bar 21 of Scenario B); Scenario B yields exactly one event, at
\* bar 21, entry 103, exit the close of bar 26; with fewer than 26 bars the
\* candidate is dropped and the outcome is NoBreakouts.
C7_ScenarioB ==
    (pc = "returned" /\ ScenarioB) =>
        IF len(df) >= 26
        THEN /\ Len(breakout_returns) = 1
             /\ breakout_returns[1].date = df[20].date
             /\ breakout_returns[1].AvgVolume = 1125
             /\ breakout_returns[1].EntryPrice = 103
             /\ breakout_returns[1].ExitPrice = df[25].Close
             /\ results = Table(breakout_returns)
        ELSE results = None /\ notice = "info"

\* Scenario B with 26 bars, finished.
C7_Witness ==
    pc = "returned" /\ ScenarioB /\ len(df) = 26 /\ ~results.none

---------------------------------------------------------------------------
(* C8 *)

RowsWon == { j \in DOMAIN results.rows : results.rows[j].ReturnPct > 0 }

\* Everything C8 says but the range of win_rate.
SummaryFromEvents ==
    /\ summary.count = Len(results.rows)
    /\ summary.count >= 1
    /\ results.rows = breakout_returns
    /\ summary.avg_return.den = summary.count
    /\ summary.avg_return.num = SumReturns(results.rows)
    /\ summary.worst * summary.count <= summary.avg_return.num
    /\ summary.avg_return.num <= summary.best * summary.count
    /\ \E j \in DOMAIN results.rows : results.rows[j].ReturnPct = summary.best
    /\ \E j \in DOMAIN results.rows : results.rows[j].ReturnPct = summary.worst

\* C8 as stated: win_rate is the fraction of events with a return above 0,
\* a number in [0, 1].
C8_WinRateIsFraction ==
    summary.shown =>
        /\ SummaryFromEvents
        /\ summary.win_rate.num * summary.count = Cardinality(RowsWon) * summary.win_rate.den
        /\ 0 <= summary.win_rate.num
        /\ summary.win_rate.num <= summary.win_rate.den

\* C8 as amended: win_rate is 100 times the fraction of events with a
\* return above 0 (a return of 0 is no win), a number in [0, 100]; the rest
\* as stated.
C8_WinRateIsPercentage ==
    summary.shown =>
        /\ SummaryFromEvents
        /\ summary.win_rate.num * summary.count
              = 100 * Cardinality(RowsWon) * summary.win_rate.den
        /\ 0 <= summary.win_rate.num
        /\ summary.win_rate.num <= 100 * summary.win_rate.den

\* A summary of two events, one won and one lost.
C8_Witness ==
    /\ summary.shown
    /\ summary.count = 2
    /\ summary.worst < 0 /\ 0 < summary.best
    /\ Cardinality(RowsWon) = 1

---------------------------------------------------------------------------
(* C9 *)

\* C9: a call with the inputs of the call before it ends as that one did:
\* same return value (same events, order and fields), same notice, same
\* warnings.
C9_Idempotent ==
    (calls >= 2 /\ Done) =>
        /\ results = prev.results
        /\ notice = prev.notice
        /\ warnings = prev.warnings

\* A second call that returned a table.
C9_Witness ==
    calls >= 2 /\ pc = "returned" /\ ~results.none

---------------------------------------------------------------------------
(* C10 *)

\* The breakout days whose label the index holds more than once.
UnresolvedDays ==
    { i \in DOMAIN df :
        BreakoutDay(i) /\ \E j \in DOMAIN df : j # i /\ df[j].date = df[i].date }

ResolvedDays == { i \in ReportableDays : i \notin UnresolvedDays }

\* C10: a breakout day whose event cannot be built is warned about and left
\* out, and every other breakout day with its exit inside the series is
\* reported, in order.
C10_SkipAndContinue ==
    pc = "returned" =>
        LET bad  == Ascending(UnresolvedDays)
            good == Ascending(ResolvedDays)
        IN  /\ Len(warnings) = Len(bad)
            /\ \A j \in DOMAIN bad : warnings[j] = df[bad[j]].date
            /\ Len(breakout_returns) = Len(good)
            /\ \A j \in DOMAIN good : EventOfDay(j, good[j])

\* A finished call that warned about one day and reported a later one.
C10_Witness ==
    /\ pc = "returned"
    /\ Len(warnings) >= 1
    /\ \E i \in UnresolvedDays, j \in ResolvedDays :
          i < j /\ df[j].date \in EventDates

=============================================================================
